---- MODULE Spec2Model ----
(***************************************************************************)
(* Model of the UniFiAPI client (src/src/index.ts): the constructor,       *)
(* session state, the axios interceptors, login / logout / request, the    *)
(* lookups by MAC address, the event socket, the frames it delivers and    *)
(* the event handler.                                                      *)
(*                                                                         *)
(* Scheduling is single-threaded and cooperative.  One action is one run   *)
(* of program code between two suspension points: the synchronous part of  *)
(* a public call, what runs when an HTTP response arrives (the response    *)
(* interceptor and the continuation of the awaiting method), and one       *)
(* WebSocket callback.                                                     *)
(***************************************************************************)
EXTENDS Integers, Sequences, FiniteSets, TLC

VARIABLES
  isAuthenticated,  \* UniFiAPI.isAuthenticated
  cookies,          \* UniFiAPI.cookies
  csrfToken,        \* UniFiAPI.csrfToken
  eventSocket,      \* UniFiAPI.eventSocket: the socket the handle refers to, 0 for null
  calls,            \* the calls of the async methods: where each stands, what it sent and emitted
  sockets,          \* the WebSocket objects enableEvents() created
  settled,          \* the value or error most recently handed to a caller
  inbound,          \* the frame most recently delivered and what its handler emitted
  lookedUp,         \* the lookup most recently answered: its arguments and the collection it got
  client            \* what `new UniFiAPI(options)` produced: options, baseURL, or the error thrown

vars ==
  <<isAuthenticated, cookies, csrfToken, eventSocket, calls, sockets, settled, inbound, lookedUp, client>>

\* ---- bounds ----
\* calls the caller makes in a run of the session specification
MaxCalls == 2
\* calls and connections in a run of the event-stream specification
MaxEventCalls == 3
MaxSockets == 3
\* calls in a run of the event-stream specification that follows a released connection
\* through two further enableEvents() calls
MaxReleaseCalls == 4
\* calls the caller has outstanding at the same time
MaxPending == 2
\* calls in a run of the frame specification, and frames delivered in it
MaxStreamCalls == 2
MaxFrames == 2
\* calls in a run of the lookup specification, and entries in a collection the controller returns
MaxLookupCalls == 2
MaxEntries == 2
\* calls made on a client in a run of the construction specification
MaxConstructCalls == 2

MaxFairCalls == 2

CallIds == DOMAIN calls
SockIds == DOMAIN sockets

\* ---- configuration of the client under analysis ----
baseURL == "https://unifi.local:8443"

\* ---- strings that are taken apart or put together: sequences of characters ----
Digit(d) ==
  CASE d = 0 -> "0" [] d = 1 -> "1" [] d = 2 -> "2" [] d = 3 -> "3" [] d = 4 -> "4"
    [] d = 5 -> "5" [] d = 6 -> "6" [] d = 7 -> "7" [] d = 8 -> "8" [] d = 9 -> "9"

\* `${n}` for a non-negative integer
RECURSIVE NumberToString(_)
NumberToString(n) ==
  IF n < 10 THEN <<Digit(n)>> ELSE NumberToString(n \div 10) \o <<Digit(n % 10)>>

\* variant: the last occurrence is replaced
Replace_LastOccurrence(str, pattern, replacement) ==
  LET at == {i \in 1..(Len(str) - Len(pattern) + 1) : SubSeq(str, i, i + Len(pattern) - 1) = pattern}
  IN  IF at = {} THEN str
      ELSE LET i == CHOOSE i \in at : \A j \in at : i >= j
           IN  SubSeq(str, 1, i - 1) \o replacement \o SubSeq(str, i + Len(pattern), Len(str))

\* String.prototype.replace(pattern, replacement) with a string pattern: the first occurrence
Replace(str, pattern, replacement) ==
  LET at == {i \in 1..(Len(str) - Len(pattern) + 1) : SubSeq(str, i, i + Len(pattern) - 1) = pattern}
  IN  IF at = {} THEN str
      ELSE LET i == CHOOSE i \in at : \A j \in at : i <= j
           IN  SubSeq(str, 1, i - 1) \o replacement \o SubSeq(str, i + Len(pattern), Len(str))

\* ---- values exchanged with the controller ----
NoError == [name |-> "", code |-> "", message |-> ""]

UniFiError(message, code) == [name |-> "UniFiError", code |-> code, message |-> message]

\* a transport failure as axios reports it: HTTP status (0: no response) and error code
TransportErrors ==
  { [status |-> 401, code |-> "ERR_BAD_REQUEST"],
    [status |-> 0,   code |-> "ECONNREFUSED"],
    [status |-> 0,   code |-> "ENOTFOUND"],
    [status |-> 500, code |-> "ERR_BAD_RESPONSE"],
    [status |-> 0,   code |-> "ETIMEDOUT"] }

\* the error object axios raised, as the caller sees it when it is re-thrown
AxiosError(r) == [name |-> "AxiosError", code |-> r.code, message |-> "Request failed"]

\* set-cookie headers: a list of cookies, each a list of its ';'-separated parts
NoSetCookie == [present |-> FALSE, list |-> <<>>]

SetCookieHeaders ==
  { NoSetCookie,
    [present |-> TRUE, list |-> << <<"unifises=A", " Path=/", " HttpOnly">> >>],
    [present |-> TRUE, list |-> << <<"unifises=B">>, <<"csrf_token=X", " Secure">> >>] }

\* response envelopes: kind "none" (no body), "nometa" (body without meta), "meta"
NoEnvelope == [kind |-> "none", rc |-> "", msg |-> "", csrf |-> "", data |-> "absent"]

Envelopes ==
  { NoEnvelope,
    [kind |-> "nometa", rc |-> "", msg |-> "", csrf |-> "", data |-> "list"],
    [kind |-> "meta", rc |-> "ok", msg |-> "", csrf |-> "", data |-> "absent"],
    [kind |-> "meta", rc |-> "ok", msg |-> "", csrf |-> "T", data |-> "absent"],
    [kind |-> "meta", rc |-> "ok", msg |-> "", csrf |-> "", data |-> "list"],
    [kind |-> "meta", rc |-> "error", msg |-> "", csrf |-> "", data |-> "absent"],
    [kind |-> "meta", rc |-> "error", msg |-> "api.err.Invalid", csrf |-> "", data |-> "list"] }

Responses ==
  { [ok |-> TRUE, status |-> 200, code |-> "", setCookie |-> NoSetCookie, env |-> e] : e \in Envelopes }
  \cup
  { [ok |-> TRUE, status |-> 200, code |-> "", setCookie |-> sc,
     env |-> [kind |-> "meta", rc |-> "ok", msg |-> "", csrf |-> "", data |-> "absent"]] :
       sc \in SetCookieHeaders }
  \cup
  { [ok |-> FALSE, status |-> t.status, code |-> t.code, setCookie |-> NoSetCookie, env |-> NoEnvelope] :
       t \in TransportErrors }

\* ---- the request interceptor ----
\* the session headers of an outgoing request: each is set when the stored value is not empty
RequestHeaders(session) ==
  [Cookie |-> IF session.cookies # "" THEN session.cookies ELSE "absent",
   XCsrfToken |-> IF session.csrfToken # "" THEN session.csrfToken ELSE "absent"]

\* ---- the response interceptor ----
RECURSIVE JoinCookies(_)
JoinCookies(parts) ==
  IF Len(parts) = 0 THEN ""
  ELSE IF Len(parts) = 1 THEN parts[1]
  ELSE parts[1] \o "; " \o JoinCookies(Tail(parts))

\* variant: the new cookies are appended to the stored ones
CookiesAfter_Merged(r, old) ==
  IF r.setCookie.present
  THEN IF old = "" THEN JoinCookies([i \in 1..Len(r.setCookie.list) |-> r.setCookie.list[i][1]])
       ELSE old \o "; " \o JoinCookies([i \in 1..Len(r.setCookie.list) |-> r.setCookie.list[i][1]])
  ELSE old

\* response => { if (set-cookie) cookies = set-cookie.map(c => c.split(';')[0]).join('; ') }
CookiesAfter(r, old) ==
  IF r.setCookie.present
  THEN JoinCookies([i \in 1..Len(r.setCookie.list) |-> r.setCookie.list[i][1]])
  ELSE old

\* variant: only a refused connection is classified, a failed name lookup is passed on
RejectedError_RefusedOnly(r) ==
  IF r.status = 401 THEN UniFiError("Authentication failed", "INVALID_CREDENTIALS")
  ELSE IF r.code = "ECONNREFUSED"
       THEN UniFiError("Cannot connect to UniFi Controller at " \o baseURL, "CONNECTION_ERROR")
       ELSE AxiosError(r)

\* error => 401 / ECONNREFUSED, ENOTFOUND / anything else: the error thrown on
RejectedError(r) ==
  IF r.status = 401 THEN UniFiError("Authentication failed", "INVALID_CREDENTIALS")
  ELSE IF r.code = "ECONNREFUSED" \/ r.code = "ENOTFOUND"
       THEN UniFiError("Cannot connect to UniFi Controller at " \o baseURL, "CONNECTION_ERROR")
       ELSE AxiosError(r)

\* variant: the 401 branch forgets to clear the flag
SessionAfterRejected_KeepsFlag(r, session) == session

\* what the error handler writes to the session before it throws: the 401 branch
\* clears the flag, nothing else is assigned
SessionAfterRejected(r, session) ==
  IF r.status = 401 THEN [session EXCEPT !.isAuthenticated = FALSE] ELSE session

\* variant: any envelope with a meta section counts as success
RcOk_AnyMeta(r) == r.env.kind = "meta"

\* response.data && response.data.meta && response.data.meta.rc === 'ok'
RcOk(r) == r.env.kind = "meta" /\ r.env.rc = "ok"

\* response.data.data || response.data : a falsy data section yields the whole envelope
Falsy(d) == d \in {"absent", "null", "zero", "false", "emptystring"}

Payload(r) == IF Falsy(r.env.data) THEN "envelope" ELSE r.env.data

\* variant: the server's message is dropped
ApiError_NoMessage(r) == UniFiError("API Error: Unknown error", "undefined")

\* `API Error: ${response.data?.meta?.msg || 'Unknown error'}`
ApiError(r) ==
  UniFiError("API Error: " \o (IF r.env.kind = "meta" /\ r.env.msg # "" THEN r.env.msg ELSE "Unknown error"),
             "undefined")

\* what login() throws for response r (NoError when it returns true)
LoginError(r) ==
  IF r.ok
  THEN IF RcOk(r) THEN NoError
       ELSE UniFiError("Authentication failed: Invalid response", "undefined")
  ELSE RejectedError(r)

\* ---- new UniFiAPI(options) ----
\* an options object: a function from the keys that were given to their values
NoOptions == <<>>

Optional(key, values) == {NoOptions} \cup {key :> v : v \in values}

Hosts == { <<"u", ".", "l", "a", "n">>, <<"h", "t", "t", "p", "d">> }

\* the options a caller may pass: each field left out or given; host, username and password
\* also as the empty string
Configs ==
  { host @@ username @@ password @@ port @@ site @@ ssl @@ strictSSL @@ timeout :
      host \in Optional("host", Hosts \cup {<<>>}),
      username \in Optional("username", {"", "admin"}),
      password \in Optional("password", {"", "secret"}),
      port \in Optional("port", {443}),
      site \in Optional("site", {<<"l", "a", "b">>}),
      ssl \in Optional("ssl", BOOLEAN),
      strictSSL \in Optional("strictSSL", {TRUE}),
      timeout \in Optional("timeout", {5000}) }

DefaultConfig ==
  [host |-> <<"u", "n", "i", "f", "i", ".", "l", "o", "c", "a", "l">>,
   username |-> "admin", password |-> "secret"]

\* { port: 8443, site: 'default', ssl: true, strictSSL: false, timeout: 30000, ...options }
Defaults ==
  [port |-> 8443, site |-> <<"d", "e", "f", "a", "u", "l", "t">>, ssl |-> TRUE,
   strictSSL |-> FALSE, timeout |-> 30000]

Merged(options) == options @@ Defaults

\* variant: only the host is required
Incomplete_HostOnly(options) == "host" \notin DOMAIN options \/ options.host = <<>>

\* !this.options.host || !this.options.username || !this.options.password
Incomplete(options) ==
  \/ "host" \notin DOMAIN options \/ options.host = <<>>
  \/ "username" \notin DOMAIN options \/ options.username = ""
  \/ "password" \notin DOMAIN options \/ options.password = ""

\* `${this.options.ssl ? 'https' : 'http'}://${this.options.host}:${this.options.port}`
BaseURL(options) ==
  (IF options.ssl THEN <<"h", "t", "t", "p", "s">> ELSE <<"h", "t", "t", "p">>)
    \o <<":", "/", "/">> \o options.host \o <<":">> \o NumberToString(options.port)

\* no client: before construction; after a construction that threw, with the options that
\* were given and the error
NoClient == [made |-> FALSE, given |-> NoOptions, options |-> NoOptions, baseURL |-> <<>>, thrown |-> NoError]

\* variant: the given options are merged first and the defaults over them
NewUniFiAPI_DefaultsLast(options) ==
  IF Incomplete(Merged(options))
  THEN [NoClient EXCEPT !.given = options,
                        !.thrown = UniFiError("Host, username, and password are required", "undefined")]
  ELSE [made |-> TRUE, given |-> options, options |-> Defaults @@ options,
        baseURL |-> BaseURL(Defaults @@ options), thrown |-> NoError]

\* the constructor: the client it yields, or the error it throws
NewUniFiAPI(options) ==
  IF Incomplete(Merged(options))
  THEN [NoClient EXCEPT !.given = options,
                        !.thrown = UniFiError("Host, username, and password are required", "undefined")]
  ELSE [made |-> TRUE, given |-> options, options |-> Merged(options),
        baseURL |-> BaseURL(Merged(options)), thrown |-> NoError]

\* `${this.baseURL.replace('http', 'ws')}/wss/s/${this.options.site}/events`
wsUrl ==
  Replace(client.baseURL, <<"h", "t", "t", "p">>, <<"w", "s">>)
    \o <<"/", "w", "s", "s", "/", "s", "/">> \o client.options.site \o <<"/", "e", "v", "e", "n", "t", "s">>

\* ---- state ----
\* op and mac: the lookup ("getDevice" | "getClient") that made the request and its argument
NewCall ==
  [kind |-> "none", pc |-> "idle", lazy |-> FALSE, nLogin |-> 0, nOwn |-> 0,
   out |-> "pending", loginOut |-> "none", nAuth |-> 0, nDisc |-> 0, sock |-> 0,
   op |-> "", mac |-> <<>>]

\* the value or error most recently handed to a caller, and the call it settled
NothingSettled == [call |-> 0, val |-> "", err |-> NoError]

\* nError: 'error' notifications delivered for transport errors; bad: "reported" once a frame
\* of this socket could not be parsed and was reported, "thrown" once the report was thrown out
\* of the callback
NewSocket ==
  [state |-> "none", owner |-> 0, opened |-> FALSE, errored |-> FALSE,
   nConnected |-> 0, nDisconnected |-> 0, nError |-> 0, bad |-> "no", url |-> <<>>]

\* n frames were handled so far; the latest arrived on socket sock with text frame (0 and ""
\* when the handler was invoked directly), event is the value handed to handleEvent() and
\* emitted the notifications emitted for it
NoFrame ==
  [n |-> 0, sock |-> 0, frame |-> "",
   event |-> [type |-> "undefined", meta |-> "absent", message |-> "absent", data |-> "absent"],
   emitted |-> <<>>]

\* no lookup was answered yet; otherwise: the call, the method ("getDevice" | "getClient"), its
\* argument and the collection the request returned
NoLookup == [call |-> 0, op |-> "", mac |-> <<>>, devices |-> <<>>]

\* the client after construction, before any call
Constructed(nCalls, nSockets) ==
  /\ isAuthenticated = FALSE
  /\ cookies = ""
  /\ csrfToken = ""
  /\ eventSocket = 0
  /\ calls = [c \in 1..nCalls |-> NewCall]
  /\ sockets = [s \in 1..nSockets |-> NewSocket]
  /\ settled = NothingSettled
  /\ inbound = NoFrame
  /\ lookedUp = NoLookup
  /\ client = NewUniFiAPI(DefaultConfig)

Init == Constructed(MaxCalls, 0)

InitEvents == Constructed(MaxEventCalls, MaxSockets)

InitRelease == Constructed(MaxReleaseCalls, MaxSockets)

InitStream == Constructed(MaxStreamCalls, MaxSockets)

InitAttempts == Constructed(MaxCalls, MaxSockets)

InitLookup == Constructed(MaxLookupCalls, 0)

\* before `new UniFiAPI(options)`: there is no object and its fields have no value
InitConstruct ==
  /\ client = NoClient
  /\ isAuthenticated = "undefined"
  /\ cookies = "undefined"
  /\ csrfToken = "undefined"
  /\ eventSocket = "undefined"
  /\ calls = [c \in 1..MaxConstructCalls |-> NewCall]
  /\ sockets = [s \in 1..MaxSockets |-> NewSocket]
  /\ settled = NothingSettled
  /\ inbound = NoFrame
  /\ lookedUp = NoLookup

\* variant: the client starts out authenticated
constructor_Authenticated(options) ==
  /\ client = NoClient
  /\ client' = NewUniFiAPI(options)
  /\ IF client'.made
     THEN /\ isAuthenticated' = TRUE
          /\ cookies' = ""
          /\ csrfToken' = ""
          /\ eventSocket' = 0
     ELSE UNCHANGED <<isAuthenticated, cookies, csrfToken, eventSocket>>
  /\ UNCHANGED <<calls, sockets, settled, inbound, lookedUp>>

\* new UniFiAPI(options): the field initialisers, then the constructor body
constructor(options) ==
  /\ client = NoClient
  /\ client' = NewUniFiAPI(options)
  /\ IF client'.made
     THEN /\ isAuthenticated' = FALSE
          /\ cookies' = ""
          /\ csrfToken' = ""
          /\ eventSocket' = 0
     ELSE UNCHANGED <<isAuthenticated, cookies, csrfToken, eventSocket>>
  /\ UNCHANGED <<calls, sockets, settled, inbound, lookedUp>>

Pending == {d \in CallIds : calls[d].pc \notin {"idle", "done"}}

\* calls are numbered in the order the caller makes them
CanStart(c) ==
  /\ calls[c].pc = "idle"
  /\ \A d \in CallIds : d < c => calls[d].pc # "idle"
  /\ Cardinality(Pending) < MaxPending

\* a call resolves with val or rejects with err
Settle(c, cs, out, val, err) ==
  /\ calls' = [cs EXCEPT ![c] = [@ EXCEPT !.pc = "done", !.out = out]]
  /\ settled' = [call |-> c, val |-> val, err |-> err]

\* WebSocket.close(): only a connecting or open socket starts closing
Closed(socks, s) ==
  IF socks[s].state \in {"connecting", "open"}
  THEN [socks EXCEPT ![s].state = "closing"]
  ELSE socks

FreeSockets == {s \in SockIds : sockets[s].state = "none"}

Session == [isAuthenticated |-> isAuthenticated, cookies |-> cookies, csrfToken |-> csrfToken]

\* variant: the handle only counts once its socket is open
HandleHeld_OnlyOpen == eventSocket # 0 /\ sockets[eventSocket].state = "open"

\* if (this.eventSocket) return true
HandleHeld == eventSocket # 0

\* ---- login() ----
login(c) ==
  /\ CanStart(c)
  /\ calls' = [calls EXCEPT ![c] = [@ EXCEPT !.kind = "login", !.pc = "login", !.nLogin = @ + 1]]
  /\ UNCHANGED <<isAuthenticated, cookies, csrfToken, eventSocket, sockets, settled>>
  /\ UNCHANGED <<inbound, lookedUp, client>>

\* variant: the flag is not consulted, no login is sent
ensureAuthenticated_NoLogin(c, kind) ==
  calls' = [calls EXCEPT ![c] = [@ EXCEPT !.kind = kind, !.pc = "authed"]]

\* ---- ensureAuthenticated(), as the first statement of request() and enableEvents() ----
ensureAuthenticatedIn(cs, c, kind) ==
  IF ~isAuthenticated
  THEN calls' = [cs EXCEPT ![c] =
                   [@ EXCEPT !.kind = kind, !.pc = "login", !.lazy = TRUE, !.nLogin = @ + 1]]
  ELSE calls' = [cs EXCEPT ![c] = [@ EXCEPT !.kind = kind, !.pc = "authed"]]

\* variant: a call that finds a login in flight does not send another one
ensureAuthenticated_SharedLogin(c, kind) ==
  IF ~isAuthenticated /\ \A d \in CallIds : calls[d].pc # "login"
  THEN calls' = [calls EXCEPT ![c] =
                   [@ EXCEPT !.kind = kind, !.pc = "login", !.lazy = TRUE, !.nLogin = @ + 1]]
  ELSE calls' = [calls EXCEPT ![c] = [@ EXCEPT !.kind = kind, !.pc = "authed"]]

ensureAuthenticated(c, kind) == ensureAuthenticatedIn(calls, c, kind)

request(c) ==
  /\ CanStart(c)
  /\ ensureAuthenticated(c, "request")
  /\ UNCHANGED <<isAuthenticated, cookies, csrfToken, eventSocket, sockets, settled>>
  /\ UNCHANGED <<inbound, lookedUp, client>>

enableEvents(c) ==
  /\ CanStart(c)
  /\ ensureAuthenticated(c, "enableEvents")
  /\ UNCHANGED <<isAuthenticated, cookies, csrfToken, eventSocket, sockets, settled>>
  /\ UNCHANGED <<inbound, lookedUp, client>>

\* request() after ensureAuthenticated(): this.client(config)
sendOwn(c, cs) ==
  /\ calls' = [cs EXCEPT ![c] = [@ EXCEPT !.pc = "own", !.nOwn = @ + 1]]
  /\ UNCHANGED <<eventSocket, sockets, settled>>

\* enableEvents() after ensureAuthenticated(): reuse the handle or create the socket
openEvents(c, cs) ==
  IF HandleHeld
  THEN /\ Settle(c, [cs EXCEPT ![c].sock = eventSocket], "resolved", "true", NoError)
       /\ UNCHANGED <<eventSocket, sockets>>
  ELSE \E s \in FreeSockets :
         /\ \A t \in FreeSockets : s <= t
         /\ eventSocket' = s
         /\ sockets' = [sockets EXCEPT ![s] =
                           [@ EXCEPT !.state = "connecting", !.owner = c, !.url = wsUrl]]
         /\ calls' = [cs EXCEPT ![c] = [@ EXCEPT !.pc = "socket", !.sock = s]]
         /\ UNCHANGED settled

afterAuth(c, cs) ==
  IF cs[c].kind = "request" THEN sendOwn(c, cs) ELSE openEvents(c, cs)

\* the continuation of a call that found the session authenticated
resume(c) ==
  /\ calls[c].pc = "authed"
  /\ afterAuth(c, calls)
  /\ UNCHANGED <<isAuthenticated, cookies, csrfToken>>
  /\ UNCHANGED <<inbound, lookedUp, client>>

\* variant: enableEvents() goes on to its connection after a failed login
loginReturns_OpensAnyway(c, r) ==
  /\ calls[c].pc = "login"
  /\ cookies' = IF r.ok THEN CookiesAfter(r, cookies) ELSE SessionAfterRejected(r, Session).cookies
  /\ IF r.ok /\ RcOk(r)
     THEN /\ isAuthenticated' = TRUE
          /\ csrfToken' = IF r.env.csrf # "" THEN r.env.csrf ELSE csrfToken
          /\ LET cs == [calls EXCEPT ![c] = [@ EXCEPT !.loginOut = "ok", !.nAuth = @ + 1]]
             IN  IF cs[c].kind = "login"
                 THEN Settle(c, cs, "resolved", "true", NoError) /\ UNCHANGED <<eventSocket, sockets>>
                 ELSE afterAuth(c, cs)
     ELSE /\ isAuthenticated' = FALSE
          /\ csrfToken' = IF r.ok THEN csrfToken ELSE SessionAfterRejected(r, Session).csrfToken
          /\ IF calls[c].kind = "enableEvents"
             THEN openEvents(c, [calls EXCEPT ![c].loginOut = "failed"])
             ELSE /\ Settle(c, [calls EXCEPT ![c].loginOut = "failed"], "rejected", "", LoginError(r))
                  /\ UNCHANGED <<eventSocket, sockets>>
  /\ UNCHANGED <<inbound, lookedUp, client>>

\* the /api/login response arrives: response interceptor, then the rest of login(),
\* then the rest of the method that awaited it
loginReturns(c, r) ==
  /\ calls[c].pc = "login"
  /\ cookies' = IF r.ok THEN CookiesAfter(r, cookies) ELSE SessionAfterRejected(r, Session).cookies
  /\ IF r.ok /\ RcOk(r)
     THEN /\ isAuthenticated' = TRUE
          /\ csrfToken' = IF r.env.csrf # "" THEN r.env.csrf ELSE csrfToken
          /\ LET cs == [calls EXCEPT ![c] = [@ EXCEPT !.loginOut = "ok", !.nAuth = @ + 1]]
             IN  IF cs[c].kind = "login"
                 THEN /\ Settle(c, cs, "resolved", "true", NoError)
                      /\ UNCHANGED <<eventSocket, sockets>>
                 ELSE afterAuth(c, cs)
     ELSE /\ isAuthenticated' = FALSE
          /\ csrfToken' = IF r.ok THEN csrfToken ELSE SessionAfterRejected(r, Session).csrfToken
          /\ Settle(c, [calls EXCEPT ![c].loginOut = "failed"], "rejected", "", LoginError(r))
          /\ UNCHANGED <<eventSocket, sockets>>
  /\ UNCHANGED <<inbound, lookedUp, client>>

\* variant: a request that failed at transport level is sent once more
requestReturns_Retries(c, r) ==
  /\ calls[c].pc = "own"
  /\ calls[c].kind = "request"
  /\ cookies' = IF r.ok THEN CookiesAfter(r, cookies) ELSE SessionAfterRejected(r, Session).cookies
  /\ isAuthenticated' = IF r.ok THEN isAuthenticated ELSE SessionAfterRejected(r, Session).isAuthenticated
  /\ csrfToken' = IF r.ok THEN csrfToken ELSE SessionAfterRejected(r, Session).csrfToken
  /\ IF ~r.ok
     THEN IF calls[c].nOwn < 2
          THEN calls' = [calls EXCEPT ![c].nOwn = @ + 1] /\ UNCHANGED settled
          ELSE Settle(c, calls, "rejected", "", RejectedError(r))
     ELSE IF RcOk(r) THEN Settle(c, calls, "resolved", Payload(r), NoError)
     ELSE Settle(c, calls, "rejected", "", ApiError(r))
  /\ UNCHANGED <<eventSocket, sockets>>
  /\ UNCHANGED <<inbound, lookedUp, client>>

\* the response to the request's own endpoint arrives
requestReturns(c, r) ==
  /\ calls[c].pc = "own"
  /\ calls[c].kind = "request"
  /\ cookies' = IF r.ok THEN CookiesAfter(r, cookies) ELSE SessionAfterRejected(r, Session).cookies
  /\ isAuthenticated' = IF r.ok THEN isAuthenticated ELSE SessionAfterRejected(r, Session).isAuthenticated
  /\ csrfToken' = IF r.ok THEN csrfToken ELSE SessionAfterRejected(r, Session).csrfToken
  /\ IF ~r.ok THEN Settle(c, calls, "rejected", "", RejectedError(r))
     ELSE IF RcOk(r) THEN Settle(c, calls, "resolved", Payload(r), NoError)
     ELSE Settle(c, calls, "rejected", "", ApiError(r))
  /\ UNCHANGED <<eventSocket, sockets>>
  /\ UNCHANGED <<inbound, lookedUp, client>>

\* ---- getDevice(mac), getClient(mac) ----
\* a MAC address as the sequence of its characters
\* the addresses of the entries the controller returns, and the arguments of the lookups
EntryMacs == { <<"A", "b">>, <<"B">> }

Macs == { <<"a", "B">>, <<"b">> }

\* String.prototype.toLowerCase(), character by character
LowerChar(ch) ==
  CASE ch = "A" -> "a"
    [] ch = "B" -> "b"
    [] OTHER -> ch

toLowerCase(str) == [i \in DOMAIN str |-> LowerChar(str[i])]

\* the text of a character sequence, for template strings
RECURSIVE TextOfChars(_)
TextOfChars(str) == IF str = <<>> THEN "" ELSE Head(str) \o TextOfChars(Tail(str))

\* the collections /stat/device and /stat/sta may return: entry i has _id i and a mac
Collections ==
  UNION { [1..n -> EntryMacs] : n \in 0..MaxEntries }

Entry(items, i) == [_id |-> i, mac |-> items[i]]

\* responses to a lookup's request: a collection under rc 'ok', rc 'ok' without a data
\* section and an application failure
LookupResponses ==
  { [ok |-> TRUE, status |-> 200, code |-> "", setCookie |-> NoSetCookie, items |-> items,
     env |-> [kind |-> "meta", rc |-> "ok", msg |-> "", csrf |-> "", data |-> "list"]] :
       items \in Collections }
  \cup
  { [ok |-> TRUE, status |-> 200, code |-> "", setCookie |-> NoSetCookie, items |-> <<>>, env |-> e] :
       e \in { [kind |-> "meta", rc |-> "ok", msg |-> "", csrf |-> "", data |-> "absent"],
               [kind |-> "meta", rc |-> "error", msg |-> "api.err.Invalid", csrf |-> "", data |-> "absent"] } }

\* devices.find(d => d.mac.toLowerCase() === mac.toLowerCase()): the index of the first
\* entry that matches, 0 when none does
Find(items, mac) ==
  LET matching == {i \in DOMAIN items : toLowerCase(items[i]) = toLowerCase(mac)}
  IN  IF matching = {} THEN 0 ELSE CHOOSE i \in matching : \A j \in matching : i <= j

\* `Device with MAC ${mac} not found` / `Client with MAC ${mac} not found`
NotFound(op, mac) ==
  UniFiError((IF op = "getDevice" THEN "Device" ELSE "Client") \o " with MAC "
               \o TextOfChars(mac) \o " not found", "undefined")

\* devices.find on a payload that is the envelope, not an array
NotAnArray == [name |-> "TypeError", code |-> "undefined", message |-> "find is not a function"]

\* getDevice(mac) / getClient(mac) up to the first await inside getDevices() / getClients()
lookup(c, op, mac) ==
  /\ CanStart(c)
  /\ ensureAuthenticatedIn([calls EXCEPT ![c] = [@ EXCEPT !.op = op, !.mac = mac]], c, "request")
  /\ UNCHANGED <<isAuthenticated, cookies, csrfToken, eventSocket, sockets, settled>>
  /\ UNCHANGED <<inbound, lookedUp, client>>

getDevice(c, mac) == lookup(c, "getDevice", mac)

getClient(c, mac) == lookup(c, "getClient", mac)

\* the frame of a lookup is gone once it has returned or thrown
Returned(c) == [calls EXCEPT ![c] = [@ EXCEPT !.op = "", !.mac = <<>>]]

\* variant: the comparison is case-sensitive
lookupReturns_CaseSensitive(c, r) ==
  /\ calls[c].pc = "own"
  /\ calls[c].op \in {"getDevice", "getClient"}
  /\ cookies' = IF r.ok THEN CookiesAfter(r, cookies) ELSE SessionAfterRejected(r, Session).cookies
  /\ isAuthenticated' = IF r.ok THEN isAuthenticated ELSE SessionAfterRejected(r, Session).isAuthenticated
  /\ csrfToken' = IF r.ok THEN csrfToken ELSE SessionAfterRejected(r, Session).csrfToken
  /\ IF ~r.ok THEN Settle(c, Returned(c), "rejected", "", RejectedError(r))
     ELSE IF ~RcOk(r) THEN Settle(c, Returned(c), "rejected", "", ApiError(r))
     ELSE IF Payload(r) # "list" THEN Settle(c, Returned(c), "rejected", "", NotAnArray)
     ELSE LET mac == calls[c].mac
              matching == {i \in DOMAIN r.items : r.items[i] = mac}
          IN  IF matching = {}
              THEN Settle(c, Returned(c), "rejected", "", NotFound(calls[c].op, mac))
              ELSE Settle(c, Returned(c), "resolved",
                          Entry(r.items, CHOOSE i \in matching : \A j \in matching : i <= j), NoError)
  /\ UNCHANGED <<eventSocket, sockets>>
  /\ lookedUp' = IF r.ok /\ RcOk(r) /\ Payload(r) = "list"
                  THEN [call |-> c, op |-> calls[c].op, mac |-> calls[c].mac, devices |-> r.items]
                  ELSE lookedUp
  /\ UNCHANGED <<inbound, client>>

\* the response to the lookup's request arrives: the rest of request(), then the rest of
\* getDevice() / getClient()
lookupReturns(c, r) ==
  /\ calls[c].pc = "own"
  /\ calls[c].op \in {"getDevice", "getClient"}
  /\ cookies' = IF r.ok THEN CookiesAfter(r, cookies) ELSE SessionAfterRejected(r, Session).cookies
  /\ isAuthenticated' = IF r.ok THEN isAuthenticated ELSE SessionAfterRejected(r, Session).isAuthenticated
  /\ csrfToken' = IF r.ok THEN csrfToken ELSE SessionAfterRejected(r, Session).csrfToken
  /\ IF ~r.ok THEN Settle(c, Returned(c), "rejected", "", RejectedError(r))
     ELSE IF ~RcOk(r) THEN Settle(c, Returned(c), "rejected", "", ApiError(r))
     ELSE IF Payload(r) # "list" THEN Settle(c, Returned(c), "rejected", "", NotAnArray)
     ELSE LET mac == calls[c].mac
              i == Find(r.items, mac)
          IN  IF i = 0
              THEN Settle(c, Returned(c), "rejected", "", NotFound(calls[c].op, mac))
              ELSE Settle(c, Returned(c), "resolved", Entry(r.items, i), NoError)
  /\ UNCHANGED <<eventSocket, sockets>>
  /\ lookedUp' = IF r.ok /\ RcOk(r) /\ Payload(r) = "list"
                  THEN [call |-> c, op |-> calls[c].op, mac |-> calls[c].mac, devices |-> r.items]
                  ELSE lookedUp
  /\ UNCHANGED <<inbound, client>>

\* ---- logout() ----
logout(c) ==
  /\ CanStart(c)
  /\ calls' = [calls EXCEPT ![c] = [@ EXCEPT !.kind = "logout", !.pc = "own", !.nOwn = @ + 1]]
  /\ UNCHANGED <<isAuthenticated, cookies, csrfToken, eventSocket, sockets, settled>>
  /\ UNCHANGED <<inbound, lookedUp, client>>

\* variant: the catch block passes the error on to the caller
logoutReturns_Rethrows(c, r) ==
  /\ calls[c].pc = "own"
  /\ calls[c].kind = "logout"
  /\ isAuthenticated' = FALSE
  /\ IF r.ok
     THEN /\ cookies' = ""
          /\ csrfToken' = ""
          /\ eventSocket' = 0
          /\ sockets' = IF eventSocket # 0 THEN Closed(sockets, eventSocket) ELSE sockets
          /\ Settle(c, [calls EXCEPT ![c].nDisc = @ + 1], "resolved", "true", NoError)
     ELSE /\ cookies' = SessionAfterRejected(r, Session).cookies
          /\ csrfToken' = SessionAfterRejected(r, Session).csrfToken
          /\ Settle(c, calls, "rejected", "", RejectedError(r))
          /\ UNCHANGED <<eventSocket, sockets>>
  /\ UNCHANGED <<inbound, lookedUp, client>>

\* the /api/logout response arrives: the try block runs to its end, or the catch block
logoutReturns(c, r) ==
  /\ calls[c].pc = "own"
  /\ calls[c].kind = "logout"
  /\ isAuthenticated' = FALSE
  /\ IF r.ok
     THEN /\ cookies' = ""
          /\ csrfToken' = ""
          /\ eventSocket' = 0
          /\ sockets' = IF eventSocket # 0 THEN Closed(sockets, eventSocket) ELSE sockets
          /\ Settle(c, [calls EXCEPT ![c].nDisc = @ + 1], "resolved", "true", NoError)
     ELSE /\ cookies' = SessionAfterRejected(r, Session).cookies
          /\ csrfToken' = SessionAfterRejected(r, Session).csrfToken
          /\ Settle(c, calls, "resolved", "true", NoError)
          /\ UNCHANGED <<eventSocket, sockets>>
  /\ UNCHANGED <<inbound, lookedUp, client>>

\* ---- disableEvents() ----
\* variant: the connection is closed but the handle is kept
disableEvents_KeepsHandle(c) ==
  /\ CanStart(c)
  /\ eventSocket' = eventSocket
  /\ sockets' = IF eventSocket # 0 THEN Closed(sockets, eventSocket) ELSE sockets
  /\ Settle(c, [calls EXCEPT ![c].kind = "disableEvents"], "resolved", "true", NoError)
  /\ UNCHANGED <<isAuthenticated, cookies, csrfToken>>
  /\ UNCHANGED <<inbound, lookedUp, client>>

disableEvents(c) ==
  /\ CanStart(c)
  /\ eventSocket' = 0
  /\ sockets' = IF eventSocket # 0 THEN Closed(sockets, eventSocket) ELSE sockets
  /\ Settle(c, [calls EXCEPT ![c].kind = "disableEvents"], "resolved", "true", NoError)
  /\ UNCHANGED <<isAuthenticated, cookies, csrfToken>>
  /\ UNCHANGED <<inbound, lookedUp, client>>

\* ---- the socket's callbacks, registered by enableEvents() ----
\* a promise settles once: a later resolve or reject has no effect
SettleOwner(s, out, val, err) ==
  IF calls[sockets[s].owner].out = "pending"
  THEN Settle(sockets[s].owner, calls, out, val, err)
  ELSE UNCHANGED <<calls, settled>>

SocketError == [name |-> "Error", code |-> "undefined", message |-> "socket error"]

\* variant: the open callback emits 'events.connected' and does not resolve the call
onOpen_NoResolve(s) ==
  /\ sockets[s].state = "connecting"
  /\ sockets' = [sockets EXCEPT ![s] = [@ EXCEPT !.state = "open", !.opened = TRUE, !.nConnected = @ + 1]]
  /\ UNCHANGED <<calls, settled>>
  /\ UNCHANGED <<isAuthenticated, cookies, csrfToken, eventSocket>>
  /\ UNCHANGED <<inbound, lookedUp, client>>

onOpen(s) ==
  /\ sockets[s].state = "connecting"
  /\ sockets' = [sockets EXCEPT ![s] = [@ EXCEPT !.state = "open", !.opened = TRUE, !.nConnected = @ + 1]]
  /\ SettleOwner(s, "resolved", "true", NoError)
  /\ UNCHANGED <<isAuthenticated, cookies, csrfToken, eventSocket>>
  /\ UNCHANGED <<inbound, lookedUp, client>>

\* variant: the error callback emits 'error' and does not reject the pending call
onError_NoReject(s, listening) ==
  /\ \/ sockets[s].state \in {"connecting", "open"}
     \/ sockets[s].state = "closing" /\ ~sockets[s].opened /\ ~sockets[s].errored
  /\ sockets' = [sockets EXCEPT ![s] =
                   [@ EXCEPT !.state = "closing", !.errored = TRUE,
                             !.nError = IF listening THEN @ + 1 ELSE @]]
  /\ UNCHANGED <<calls, settled>>
  /\ UNCHANGED <<isAuthenticated, cookies, csrfToken, eventSocket>>
  /\ UNCHANGED <<inbound, lookedUp, client>>

\* the transport reports an error: on a live socket, or once on a socket that was
\* closed before its handshake completed; the socket is closing from then on.
\* listening: the caller has an 'error' listener on the client at this moment. Without one,
\* emit('error', error) throws the error, so the callback ends before reject(error).
onError(s, listening) ==
  /\ \/ sockets[s].state \in {"connecting", "open"}
     \/ sockets[s].state = "closing" /\ ~sockets[s].opened /\ ~sockets[s].errored
  /\ IF listening
     THEN /\ sockets' = [sockets EXCEPT ![s] =
                           [@ EXCEPT !.state = "closing", !.errored = TRUE, !.nError = @ + 1]]
          /\ SettleOwner(s, "rejected", "", SocketError)
     ELSE /\ sockets' = [sockets EXCEPT ![s] =
                           [@ EXCEPT !.state = "closing", !.errored = TRUE]]
          /\ UNCHANGED <<calls, settled>>
  /\ UNCHANGED <<isAuthenticated, cookies, csrfToken, eventSocket>>
  /\ UNCHANGED <<inbound, lookedUp, client>>

\* variant: the close callback leaves the handle in place
onClose_KeepsHandle(s) ==
  /\ sockets[s].state \in {"open", "closing"}
  /\ sockets' = [sockets EXCEPT ![s] = [@ EXCEPT !.state = "closed", !.nDisconnected = @ + 1]]
  /\ UNCHANGED <<isAuthenticated, cookies, csrfToken, eventSocket, calls, settled>>
  /\ UNCHANGED <<inbound, lookedUp, client>>

\* variant: the close callback clears the handle only for a connection that had opened
onClose_ClearsIfOpened(s) ==
  /\ sockets[s].state \in {"open", "closing"}
  /\ sockets' = [sockets EXCEPT ![s] = [@ EXCEPT !.state = "closed", !.nDisconnected = @ + 1]]
  /\ eventSocket' = IF sockets[s].opened THEN 0 ELSE eventSocket
  /\ UNCHANGED <<isAuthenticated, cookies, csrfToken, calls, settled>>
  /\ UNCHANGED <<inbound, lookedUp, client>>

onClose(s) ==
  /\ sockets[s].state \in {"open", "closing"}
  /\ sockets' = [sockets EXCEPT ![s] = [@ EXCEPT !.state = "closed", !.nDisconnected = @ + 1]]
  /\ eventSocket' = 0
  /\ UNCHANGED <<isAuthenticated, cookies, csrfToken, calls, settled>>
  /\ UNCHANGED <<inbound, lookedUp, client>>

\* ---- inbound frames ----
\* a parsed frame: type "null" | "undefined" | "object"; meta "absent" | "null" | "object";
\* message: the tag, "absent" when meta has none; data: the payload, "absent" when there is none
NoEvent == [type |-> "undefined", meta |-> "absent", message |-> "absent", data |-> "absent"]

Envelope(meta, message, data) == [type |-> "object", meta |-> meta, message |-> message, data |-> data]

NamedTags == {"sta:connect", "sta:disconnect", "ap:detected", "ap:lost"}

Tags == NamedTags \cup {"station-connect", "station-disconnect", "ap-detected", "ap-lost", "custom:event"}

DataValues == {"absent", "null", "zero", "false", "emptystring", "\"x\"", "[]", "{\"mac\":\"AA\"}"}

\* the values handleEvent() may be given
Events ==
  { NoEvent, [NoEvent EXCEPT !.type = "null"] }
  \cup { Envelope(meta, "absent", data) : meta \in {"absent", "null", "object"}, data \in DataValues }
  \cup { Envelope("object", tag, data) : tag \in Tags, data \in DataValues }

\* the texts the model knows to be JSON, each with the value it stands for
TextOf(tag, data) == "{\"meta\":{\"message\":\"" \o tag \o "\"},\"data\":" \o data \o "}"

JSONTexts ==
  { [text |-> "null", value |-> [NoEvent EXCEPT !.type = "null"]],
    [text |-> "{\"meta\":{}}", value |-> Envelope("object", "absent", "absent")] }
  \cup
  { [text |-> TextOf(tag, "{\"mac\":\"AA\"}"), value |-> Envelope("object", tag, "{\"mac\":\"AA\"}")] :
      tag \in {"sta:connect", "custom:event"} }

\* the frames a connection may deliver: the JSON texts and two texts that are not JSON
Frames == {t.text : t \in JSONTexts} \cup {"", "{\"meta\":{\"message\":\"sta:connect\"}"}

SyntaxError == [NoEvent EXCEPT !.type = "SyntaxError"]

\* JSON.parse(data.toString()): the value of a JSON text, a SyntaxError for any other text
JSONparse(text) ==
  IF \E t \in JSONTexts : t.text = text
  THEN (CHOOSE t \in JSONTexts : t.text = text).value
  ELSE SyntaxError

\* a notification emitted on the client: its name and what it carries (type and data for the
\* generic 'event', data for a named one, the envelope for 'raw_event', the message for 'error')
Notification(name, type, data, event) == [name |-> name, type |-> type, data |-> data, event |-> event]

\* event.data || {}
EventData(event) == IF Falsy(event.data) THEN "{}" ELSE event.data

\* variant: the handler tests for the hyphenated tag names
Routed_Hyphenated(eventType) ==
  CASE eventType = "station-connect" -> "client.connected"
    [] eventType = "station-disconnect" -> "client.disconnected"
    [] eventType = "ap-detected" -> "device.detected"
    [] eventType = "ap-lost" -> "device.lost"
    [] OTHER -> "event"

\* switch (eventType): the name of the notification for a tag
Routed(eventType) ==
  CASE eventType = "sta:connect" -> "client.connected"
    [] eventType = "sta:disconnect" -> "client.disconnected"
    [] eventType = "ap:detected" -> "device.detected"
    [] eventType = "ap:lost" -> "device.lost"
    [] OTHER -> "event"

\* variant: the default branch emits the generic notification and no 'raw_event'
handleEvent_GenericNotRaw(event) ==
  IF event.type \in {"null", "undefined"} \/ event.meta \in {"absent", "null"}
  THEN <<>>
  ELSE LET eventType == event.message
           eventData == EventData(event)
       IN  IF Routed(eventType) = "event"
           THEN << Notification("event", eventType, eventData, NoEvent) >>
           ELSE << Notification(Routed(eventType), "", eventData, NoEvent),
                   Notification("raw_event", "", "", event) >>

\* variant: the generic notification is emitted for every tag, before the named one
handleEvent_AlsoGeneric(event) ==
  IF event.type \in {"null", "undefined"} \/ event.meta \in {"absent", "null"}
  THEN <<>>
  ELSE LET eventType == event.message
           eventData == EventData(event)
       IN  << Notification("event", eventType, eventData, NoEvent) >> \o
           ( IF Routed(eventType) = "event" THEN <<>>
             ELSE << Notification(Routed(eventType), "", eventData, NoEvent) >> ) \o
           << Notification("raw_event", "", "", event) >>

\* handleEvent(event): the notifications it emits, in order
handleEvent(event) ==
  IF event.type \in {"null", "undefined"} \/ event.meta \in {"absent", "null"}
  THEN <<>>
  ELSE LET eventType == event.message
           eventData == EventData(event)
       IN  << IF Routed(eventType) = "event"
              THEN Notification("event", eventType, eventData, NoEvent)
              ELSE Notification(Routed(eventType), "", eventData, NoEvent),
              Notification("raw_event", "", "", event) >>

ParseError == Notification("error", "", "Failed to parse event data: Unexpected token", NoEvent)

\* variant: a frame that cannot be parsed is dropped without a notification
onMessage_DropsBadFrame(s, text, listening) ==
  /\ sockets[s].opened
  /\ sockets[s].state \in {"open", "closing"}
  /\ inbound.n < MaxFrames
  /\ LET event == JSONparse(text)
     IN  /\ sockets' = [sockets EXCEPT ![s].bad = IF event # SyntaxError \/ @ = "thrown" THEN @
                                                    ELSE IF listening THEN "reported" ELSE "thrown"]
         /\ inbound' = [n |-> inbound.n + 1, sock |-> s, frame |-> text, event |-> event,
                        emitted |-> IF event # SyntaxError THEN handleEvent(event) ELSE <<>>]
  /\ UNCHANGED <<isAuthenticated, cookies, csrfToken, eventSocket, calls, settled, lookedUp, client>>

\* the message callback: a frame arrives on a socket that has opened and has not yet closed.
\* A frame that cannot be parsed is reported with emit('error', ...), which throws out of the
\* callback when the caller has no 'error' listener.
onMessage(s, text, listening) ==
  /\ sockets[s].opened
  /\ sockets[s].state \in {"open", "closing"}
  /\ inbound.n < MaxFrames
  /\ LET event == JSONparse(text)
     IN  /\ sockets' = [sockets EXCEPT ![s].bad = IF event # SyntaxError \/ @ = "thrown" THEN @
                                                    ELSE IF listening THEN "reported" ELSE "thrown"]
         /\ inbound' = [n |-> inbound.n + 1, sock |-> s, frame |-> text, event |-> event,
                        emitted |-> IF event # SyntaxError THEN handleEvent(event)
                                    ELSE IF listening THEN <<ParseError>> ELSE <<>>]
  /\ UNCHANGED <<isAuthenticated, cookies, csrfToken, eventSocket, calls, settled, lookedUp, client>>

\* handleEvent(event) invoked with a value, without a frame
handleEventCalled(event) ==
  /\ inbound.n < MaxFrames
  /\ inbound' = [n |-> inbound.n + 1, sock |-> 0, frame |-> "", event |-> event,
                 emitted |-> handleEvent(event)]
  /\ UNCHANGED <<isAuthenticated, cookies, csrfToken, eventSocket, calls, sockets, settled, lookedUp, client>>

\* responses the controller gives in the event-stream specification
EventResponses ==
  { r \in Responses :
      \/ r.ok /\ r.env.kind = "meta" /\ r.env.rc = "ok" /\ r.env.csrf = "" /\ r.env.data = "absent"
              /\ ~r.setCookie.present
      \/ r.status = 401 }

\* the session and the request pipeline
Next ==
  \/ \E c \in CallIds : login(c)
  \/ \E c \in CallIds : request(c)
  \/ \E c \in CallIds : logout(c)
  \/ \E c \in CallIds : resume(c)
  \/ \E c \in CallIds, r \in Responses : loginReturns(c, r)
  \/ \E c \in CallIds, r \in Responses : requestReturns(c, r)
  \/ \E c \in CallIds, r \in Responses : logoutReturns(c, r)

Spec == Init /\ [][Next]_vars

\* the event stream
NextEvents ==
  \/ \E c \in CallIds : enableEvents(c)
  \/ \E c \in CallIds : disableEvents(c)
  \/ \E c \in CallIds : logout(c)
  \/ \E c \in CallIds : resume(c)
  \/ \E c \in CallIds, r \in EventResponses : loginReturns(c, r)
  \/ \E c \in CallIds, r \in EventResponses : logoutReturns(c, r)
  \/ \E s \in SockIds : onOpen(s)
  \/ \E s \in SockIds, listening \in BOOLEAN : onError(s, listening)
  \/ \E s \in SockIds : onClose(s)

SpecEvents == InitEvents /\ [][NextEvents]_vars

SpecRelease == InitRelease /\ [][NextEvents]_vars

\* the close callback in the order the socket library delivers its signals: a connection that
\* never opened reports an error before it reports its close
onCloseInOrder(s) ==
  /\ sockets[s].opened \/ sockets[s].errored
  /\ onClose(s)

\* the event stream when every continuation runs, every HTTP request is answered and the
\* transport delivers its signals for each connection
NextEventsFair ==
  \/ \E c \in CallIds : enableEvents(c)
  \/ \E c \in CallIds : disableEvents(c)
  \/ \E c \in CallIds : logout(c)
  \/ \E c \in CallIds : resume(c)
  \/ \E c \in CallIds, r \in EventResponses : loginReturns(c, r)
  \/ \E c \in CallIds, r \in EventResponses : logoutReturns(c, r)
  \/ \E s \in SockIds : onOpen(s)
  \/ \E s \in SockIds, listening \in BOOLEAN : onError(s, listening)
  \/ \E s \in SockIds : onCloseInOrder(s)

Delivered ==
  /\ \A c \in 1..MaxFairCalls :
       /\ WF_vars(resume(c))
       /\ WF_vars(\E r \in EventResponses : loginReturns(c, r))
       /\ WF_vars(\E r \in EventResponses : logoutReturns(c, r))
  /\ \A s \in 1..MaxFairCalls :
       WF_vars(onOpen(s) \/ (\E listening \in BOOLEAN : onError(s, listening)) \/ onCloseInOrder(s))

InitEventsFair == Constructed(MaxFairCalls, MaxFairCalls)

SpecEventsFair == InitEventsFair /\ [][NextEventsFair]_vars /\ Delivered

\* the event stream with the frames it delivers
NextStream ==
  \/ \E c \in CallIds : enableEvents(c)
  \/ \E c \in CallIds : disableEvents(c)
  \/ \E c \in CallIds : resume(c)
  \/ \E c \in CallIds, r \in EventResponses : loginReturns(c, r)
  \/ \E s \in SockIds : onOpen(s)
  \/ \E s \in SockIds, listening \in BOOLEAN : onError(s, listening)
  \/ \E s \in SockIds : onClose(s)
  \/ \E s \in SockIds, text \in Frames, listening \in BOOLEAN : onMessage(s, text, listening)

SpecStream == InitStream /\ [][NextStream]_vars

\* the event handler by itself
NextHandler == \E event \in Events : handleEventCalled(event)

SpecHandler == Init /\ [][NextHandler]_vars

\* responses in the specification of attempts: every envelope and every transport failure,
\* without cookies or CSRF token
AttemptResponses == {r \in Responses : ~r.setCookie.present /\ r.env.csrf = ""}

\* every operation that makes an attempt: login(), a domain request, enableEvents()
NextAttempts ==
  \/ \E c \in CallIds : login(c)
  \/ \E c \in CallIds : request(c)
  \/ \E c \in CallIds : enableEvents(c)
  \/ \E c \in CallIds : resume(c)
  \/ \E c \in CallIds, r \in AttemptResponses : loginReturns(c, r)
  \/ \E c \in CallIds, r \in AttemptResponses : requestReturns(c, r)
  \/ \E s \in SockIds : onOpen(s)
  \/ \E s \in SockIds, listening \in BOOLEAN : onError(s, listening)
  \/ \E s \in SockIds : onClose(s)

SpecAttempts == InitAttempts /\ [][NextAttempts]_vars

\* ---- lookups by MAC address ----
LoginResponses ==
  {r \in AttemptResponses : (r.ok /\ RcOk(r) /\ r.env.data = "absent") \/ r.code = "ECONNREFUSED"}

NextLookup ==
  \/ \E c \in CallIds, mac \in Macs : getDevice(c, mac)
  \/ \E c \in CallIds, mac \in Macs : getClient(c, mac)
  \/ \E c \in CallIds : resume(c)
  \/ \E c \in CallIds, r \in LoginResponses : loginReturns(c, r)
  \/ \E c \in CallIds, r \in LookupResponses : lookupReturns(c, r)

SpecLookup == InitLookup /\ [][NextLookup]_vars

\* ---- construction, then the event connection ----
NextConstruct ==
  \/ \E options \in Configs : constructor(options)
  \/ \E c \in CallIds : client.made /\ enableEvents(c)
  \/ \E c \in CallIds : resume(c)
  \/ \E c \in CallIds, r \in LoginResponses : loginReturns(c, r)
  \/ \E s \in SockIds : onOpen(s)

SpecConstruct == InitConstruct /\ [][NextConstruct]_vars

\* responses with and without set-cookie headers: delivered ones with an accepted and with a
\* refused envelope, and failed ones (an HTTP error status carries headers, a refused
\* connection has no response)
CookieResponses ==
  { [ok |-> TRUE, status |-> 200, code |-> "", setCookie |-> sc,
     env |-> [kind |-> "meta", rc |-> rc, msg |-> "", csrf |-> "", data |-> "absent"]] :
       sc \in SetCookieHeaders, rc \in {"ok", "error"} }
  \cup
  { [ok |-> FALSE, status |-> 401, code |-> "ERR_BAD_REQUEST", setCookie |-> sc, env |-> NoEnvelope] :
       sc \in SetCookieHeaders }
  \cup
  { [ok |-> FALSE, status |-> 500, code |-> "ERR_BAD_RESPONSE", setCookie |-> sc, env |-> NoEnvelope] :
       sc \in SetCookieHeaders \ {NoSetCookie} }
  \cup
  { [ok |-> FALSE, status |-> 0, code |-> "ECONNREFUSED", setCookie |-> NoSetCookie, env |-> NoEnvelope] }

NextCookies ==
  \E c \in CallIds :
    \/ login(c)
    \/ request(c)
    \/ logout(c)
    \/ resume(c)
    \/ \E r \in CookieResponses : loginReturns(c, r)
    \/ \E r \in CookieResponses : requestReturns(c, r)
    \/ \E r \in CookieResponses : logoutReturns(c, r)

SpecCookies == Init /\ [][NextCookies]_vars

\* ---- the payload of a domain request ----
\* the data section of a response envelope: absent, a scalar, an array or an object
DataSections == {"absent", "null", "zero", "false", "emptystring", "[]", "list", "object"}

PayloadResponses ==
  { [ok |-> TRUE, status |-> 200, code |-> "", setCookie |-> NoSetCookie,
     env |-> [kind |-> "meta", rc |-> rc, msg |-> "", csrf |-> "", data |-> d]] :
       rc \in {"ok", "error"}, d \in DataSections }

NextPayload ==
  \/ \E c \in CallIds : request(c)
  \/ \E c \in CallIds : resume(c)
  \/ \E c \in CallIds, r \in LoginResponses : loginReturns(c, r)
  \/ \E c \in CallIds, r \in PayloadResponses : requestReturns(c, r)

SpecPayload == Init /\ [][NextPayload]_vars

\* ---- properties ----
\* what a claim calls a success response, read off the envelope itself
EnvelopeOk(r) == r.ok /\ r.env.kind = "meta" /\ r.env.rc = "ok"

Resolved(c, val) == calls'[c].out = "resolved" /\ settled' = [call |-> c, val |-> val, err |-> NoError]

Rejected(c) == calls'[c].out = "rejected" /\ settled'.call = c /\ settled'.val = "" /\ settled'.err # NoError

\* C1: login(): a transport success whose envelope has meta.rc = 'ok' leaves isAuthenticated
\* true, resolves true and emits exactly one 'authenticated'; a transport success whose rc is
\* not 'ok' (or whose envelope or meta is missing) leaves isAuthenticated false, rejects and
\* emits no 'authenticated'.
C1_LoginOutcome ==
  [][\A c \in CallIds, r \in Responses :
       (calls[c].kind = "login" /\ loginReturns(c, r) /\ r.ok) =>
         IF EnvelopeOk(r)
         THEN isAuthenticated' /\ Resolved(c, "true") /\ calls'[c].nAuth = 1
         ELSE ~isAuthenticated' /\ Rejected(c) /\ calls'[c].nAuth = 0]_vars

C1_Witness ==
  \E c, d \in CallIds :
    /\ calls[c].kind = "login" /\ calls[c].out = "resolved" /\ calls[c].nAuth = 1
    /\ calls[d].kind = "login" /\ calls[d].out = "rejected" /\ calls[d].nAuth = 0
    /\ settled.call = d /\ settled.err.message = "Authentication failed: Invalid response"
    /\ ~isAuthenticated

\* C2: a domain operation started while isAuthenticated is false first sends /api/login; its
\* own request is sent only after that login succeeded, and when the login fails the operation
\* rejects with the login's error and never sends its own request.
C2_LazyLogin ==
  /\ [][\A c \in CallIds :
          (request(c) /\ ~isAuthenticated) =>
            calls'[c].nLogin = 1 /\ calls'[c].nOwn = 0 /\ calls'[c].pc = "login"]_vars
  /\ [][\A c \in CallIds, r \in Responses :
          (calls[c].kind = "request" /\ loginReturns(c, r)) =>
            IF EnvelopeOk(r)
            THEN calls'[c].nOwn = 1 /\ calls'[c].out = "pending"
            ELSE /\ calls'[c].nOwn = 0 /\ Rejected(c)
                 /\ settled'.err = (IF r.ok THEN UniFiError("Authentication failed: Invalid response", "undefined")
                                    ELSE RejectedError(r))]_vars
  /\ [](\A c \in CallIds :
          (calls[c].kind = "request" /\ calls[c].lazy) =>
            /\ calls[c].nOwn > 0 => calls[c].loginOut = "ok"
            /\ calls[c].loginOut = "failed" => calls[c].nOwn = 0 /\ calls[c].out = "rejected")

C2_Witness ==
  \E c, d \in CallIds :
    /\ calls[c].kind = "request" /\ calls[c].lazy /\ calls[c].loginOut = "ok" /\ calls[c].nOwn = 1
    /\ calls[d].kind = "request" /\ calls[d].lazy /\ calls[d].loginOut = "failed" /\ calls[d].nOwn = 0
    /\ calls[d].out = "rejected"

\* C3: logout(): after the call completes isAuthenticated is false and the call has emitted
\* exactly one 'disconnected', both when the /api/logout request succeeds and when it fails.
C3_LogoutAlwaysDisconnects ==
  [][\A c \in CallIds, r \in Responses :
       logoutReturns(c, r) => ~isAuthenticated' /\ calls'[c].pc = "done" /\ calls'[c].nDisc = 1]_vars

LiveSockets == {s \in SockIds : sockets[s].state \in {"connecting", "open"}}

CreatedSockets == {s \in SockIds : sockets[s].state # "none"}

\* C4: at most one event connection created by the client is connecting or open at any time,
\* under every interleaving of enableEvents(), disableEvents(), logout() and the callbacks.
C4_OneLiveConnection == Cardinality(LiveSockets) <= 1

\* C5: enableEvents() twice in succession with no intervening close opens one connection: a
\* call that, once authentication is ensured, finds the handle in place creates no connection,
\* resolves true at once and leaves the handle as it is; and as long as no connection has been
\* closed or released, at most one connection has been created.
C5_EnableEventsIdempotent ==
  /\ [][\A c \in CallIds :
          ( /\ calls[c].kind = "enableEvents"
            /\ eventSocket # 0
            /\ \/ resume(c)
               \/ \E r \in EventResponses : EnvelopeOk(r) /\ loginReturns(c, r) ) =>
            /\ Resolved(c, "true")
            /\ sockets' = sockets
            /\ eventSocket' = eventSocket]_vars
  /\ []((CreatedSockets = LiveSockets) => Cardinality(CreatedSockets) <= 1)

C5_Witness ==
  \E c, d \in CallIds :
    /\ c < d
    /\ calls[c].kind = "enableEvents" /\ calls[d].kind = "enableEvents"
    /\ calls[c].out = "resolved" /\ calls[d].out = "resolved"
    /\ settled = [call |-> d, val |-> "true", err |-> NoError]
    /\ calls[c].sock # 0 /\ calls[d].sock = calls[c].sock
    /\ sockets[calls[c].sock].owner = c
    /\ eventSocket = calls[c].sock
    /\ CreatedSockets = {calls[c].sock}

\* C6: an enableEvents() call resolves only once the connection it relies on has reached the
\* open state, and is rejected if that connection reports an error before reaching open.
C6_ResolvesOnlyWhenOpen ==
  \A c \in CallIds :
    (calls[c].kind = "enableEvents" /\ calls[c].sock # 0) =>
      /\ calls[c].out = "resolved" => sockets[calls[c].sock].opened
      /\ (sockets[calls[c].sock].errored /\ ~sockets[calls[c].sock].opened) => calls[c].out = "rejected"

\* C7: a domain request whose response is a transport success with meta.rc other than 'ok' (or
\* without envelope or meta) rejects with an API error whose message carries meta.msg when
\* present and 'Unknown error' otherwise, and returns no payload.
C7_ApplicationFailure ==
  [][\A c \in CallIds, r \in Responses :
       (requestReturns(c, r) /\ r.ok /\ ~EnvelopeOk(r)) =>
         /\ Rejected(c)
         /\ settled'.err.name = "UniFiError"
         /\ settled'.err.message =
              "API Error: " \o (IF r.env.msg # "" THEN r.env.msg ELSE "Unknown error")]_vars

C7_Witness ==
  /\ settled.call # 0
  /\ calls[settled.call].kind = "request"
  /\ calls[settled.call].out = "rejected"
  /\ settled.err.message = "API Error: api.err.Invalid"

\* C8: for every request, an HTTP 401 becomes a UniFiError with code 'INVALID_CREDENTIALS' and
\* sets isAuthenticated to false; ECONNREFUSED or ENOTFOUND becomes a UniFiError with code
\* 'CONNECTION_ERROR' whose message names the base URL; any other transport error is re-raised
\* as it was.
C8_TransportFailures ==
  [][\A c \in CallIds, r \in Responses :
       /\ (~r.ok /\ (loginReturns(c, r) \/ requestReturns(c, r))) =>
            /\ Rejected(c)
            /\ IF r.status = 401
               THEN /\ settled'.err = [name |-> "UniFiError", code |-> "INVALID_CREDENTIALS",
                                       message |-> "Authentication failed"]
                    /\ ~isAuthenticated'
               ELSE IF r.code \in {"ECONNREFUSED", "ENOTFOUND"}
               THEN settled'.err = [name |-> "UniFiError", code |-> "CONNECTION_ERROR",
                                    message |-> "Cannot connect to UniFi Controller at " \o baseURL]
               ELSE settled'.err = [name |-> "AxiosError", code |-> r.code, message |-> "Request failed"]
       /\ (r.status = 401 /\ logoutReturns(c, r)) => ~isAuthenticated']_vars

C8_Witness ==
  /\ settled.call # 0
  /\ calls[settled.call].kind = "request"
  /\ calls[settled.call].nOwn = 1
  /\ settled.err.code = "CONNECTION_ERROR"
  /\ isAuthenticated

Got401(c, r) ==
  r.status = 401 /\ (loginReturns(c, r) \/ requestReturns(c, r) \/ logoutReturns(c, r))

C10_SessionClearedOn401 ==
  [][\A c \in CallIds, r \in Responses :
       Got401(c, r) => ~isAuthenticated' /\ cookies' = "" /\ csrfToken' = ""]_vars

\* C11: logout(): after the call completes the stored cookies and the stored CSRF token are
\* both empty, whether the /api/logout request succeeded or failed.
C11_LogoutClearsCredentials ==
  [][\A c \in CallIds, r \in Responses :
       logoutReturns(c, r) => calls'[c].pc = "done" /\ cookies' = "" /\ csrfToken' = ""]_vars

\* C12: logout(): after the call completes the stored connection handle is empty and the
\* connection it referred to has been told to close (it is neither connecting nor open), whether
\* the /api/logout request succeeded or failed.
C12_LogoutClosesEvents ==
  [][\A c \in CallIds, r \in EventResponses :
       (logoutReturns(c, r) /\ eventSocket # 0) =>
         /\ calls'[c].pc = "done"
         /\ eventSocket' = 0
         /\ sockets'[eventSocket].state \notin {"connecting", "open"}]_vars

\* C13: logout() never rejects: whatever the /api/logout response is (success, HTTP 401,
\* connection failure, any other transport error) and whatever the session state, the call
\* resolves true.
C13_LogoutNeverRejects ==
  /\ [][\A c \in CallIds, r \in Responses : logoutReturns(c, r) => Resolved(c, "true")]_vars
  /\ [](\A c \in CallIds : calls[c].kind = "logout" => calls[c].out # "rejected")

\* the first call of a never-authenticated client is a logout whose request failed
C13_Witness ==
  /\ calls[1].kind = "logout" /\ calls[1].out = "resolved" /\ calls[1].nDisc = 0
  /\ settled = [call |-> 1, val |-> "true", err |-> NoError]
  /\ ~isAuthenticated

SocketsOf(c) == {s \in SockIds : sockets[s].owner = c}

\* one call sends at most one login request and at most one request of its own, a login()
\* call exactly one login request, and an enableEvents() call creates at most one connection
AttemptedOnce ==
  \A c \in CallIds :
    /\ calls[c].nLogin <= 1 /\ calls[c].nOwn <= 1
    /\ (calls[c].kind = "login" /\ calls[c].pc # "idle") => calls[c].nLogin = 1
    /\ Cardinality(SocketsOf(c)) <= 1

\* a failed HTTP exchange rejects the call that made it, which sends nothing more
HttpFailureSurfaced ==
  \A c \in CallIds :
    (calls[c].pc \in {"login", "own"} /\ calls'[c] # calls[c]) =>
      \A r \in AttemptResponses :
        (~EnvelopeOk(r) /\ (loginReturns(c, r) \/ requestReturns(c, r))) =>
          /\ Rejected(c) /\ calls'[c].pc = "done"
          /\ calls'[c].nLogin = calls[c].nLogin /\ calls'[c].nOwn = calls[c].nOwn
          /\ sockets' = sockets

C15_CloseClearsHandle ==
  /\ [][\A s \in SockIds :
          onClose(s) =>
            /\ eventSocket' = 0
            /\ sockets'[s].nDisconnected = 1
            /\ CreatedSockets' = CreatedSockets
            /\ calls' = calls]_vars
  /\ [](\A s \in SockIds : sockets[s].nDisconnected = (IF sockets[s].state = "closed" THEN 1 ELSE 0))
  /\ [][\A s \in SockIds :
          (s \in CreatedSockets' \ CreatedSockets) =>
            \E c \in CallIds :
              /\ calls[c].kind = "enableEvents" /\ calls[c].pc \in {"authed", "login"}
              /\ calls'[c].pc = "socket"
              /\ sockets'[s].owner = c
              /\ SocketsOf(c) = {}]_vars

\* a connection that was open has closed by itself and nothing has replaced it
C15_Witness ==
  \E s \in SockIds :
    /\ sockets[s].state = "closed" /\ sockets[s].opened /\ ~sockets[s].errored
    /\ sockets[s].nDisconnected = 1
    /\ eventSocket = 0
    /\ CreatedSockets = {s}
    /\ \A c \in CallIds : calls[c].kind \in {"none", "enableEvents"}
    /\ \E c \in CallIds : calls[c].kind = "enableEvents" /\ calls[c].out = "resolved"

\* C16: disableEvents() always resolves true and leaves the handle empty; when a connection
\* was held, that connection has been told to close and no other is touched; when none was
\* held (a second call, or a call without connection) nothing but the call itself changes; it
\* never changes isAuthenticated, the cookies or the CSRF token.
C16_DisableEvents ==
  [][\A c \in CallIds :
       disableEvents(c) =>
         /\ Resolved(c, "true")
         /\ eventSocket' = 0
         /\ <<isAuthenticated', cookies', csrfToken'>> = <<isAuthenticated, cookies, csrfToken>>
         /\ \A d \in CallIds \ {c} : calls'[d] = calls[d]
         /\ IF eventSocket # 0
            THEN /\ sockets'[eventSocket].state \notin {"connecting", "open"}
                 /\ \A s \in SockIds \ {eventSocket} : sockets'[s] = sockets[s]
            ELSE sockets' = sockets]_vars

\* two disableEvents() calls in a row after a connection was opened
C16_Witness ==
  \E c, d \in CallIds, s \in SockIds :
    /\ c < d
    /\ calls[c].kind = "disableEvents" /\ calls[c].out = "resolved"
    /\ calls[d].kind = "disableEvents" /\ calls[d].out = "resolved"
    /\ settled = [call |-> d, val |-> "true", err |-> NoError]
    /\ sockets[s].opened /\ sockets[s].state = "closing"
    /\ eventSocket = 0
    /\ isAuthenticated

\* what the message callback leaves of socket s: the connection itself is as it was
SameConnection(s) ==
  /\ [sockets'[s] EXCEPT !.bad = sockets[s].bad] = sockets[s]
  /\ \A t \in SockIds \ {s} : sockets'[t] = sockets[t]
  /\ eventSocket' = eventSocket

\* a step that delivers a frame names its socket and its text in inbound'
FrameStep(s, text) == inbound'.n # inbound.n /\ s = inbound'.sock /\ text = inbound'.frame

MalformedEvents ==
  { [NoEvent EXCEPT !.type = "null"], NoEvent,
    Envelope("absent", "absent", "absent"), Envelope("null", "absent", "absent"),
    Envelope("object", "absent", "absent"), Envelope("absent", "absent", "\"x\"") }

\* C18: the event handler, given any of null, undefined, {}, {meta:null}, {meta:{}} or
\* {data:"x"}, emits no notification at all (no client.connected, client.disconnected,
\* device.detected, device.lost, event or raw_event).
C18_MalformedDropped ==
  (inbound.n > 0 /\ inbound.event \in MalformedEvents) => inbound.emitted = <<>>

Named(emitted) == {i \in 1..Len(emitted) : emitted[i].name \notin {"event", "raw_event", "error"}}

Named_As(emitted, name) == {i \in 1..Len(emitted) : emitted[i].name = name}

\* exactly one notification called name, carrying data, and exactly one 'raw_event', carrying
\* the envelope
OneNamedOneRaw(emitted, name, data, event) ==
  /\ \E i \in 1..Len(emitted) :
       Named_As(emitted, name) = {i} /\ emitted[i].data = data
  /\ \E i \in 1..Len(emitted) :
       Named_As(emitted, "raw_event") = {i} /\ emitted[i].event = event

\* C19 as stated: given an envelope with tag 'station-connect' and data {mac:"AA"} the handler
\* emits exactly one 'client.connected' carrying {mac:"AA"} and exactly one 'raw_event' carrying
\* the envelope; likewise 'station-disconnect', 'ap-detected' and 'ap-lost' are routed to
\* 'client.disconnected', 'device.detected' and 'device.lost'.
C19_HyphenatedTagsRouted ==
  \A tag \in {"station-connect", "station-disconnect", "ap-detected", "ap-lost"} :
    (inbound.n > 0 /\ inbound.event = Envelope("object", tag, "{\"mac\":\"AA\"}")) =>
      OneNamedOneRaw(inbound.emitted,
                     CASE tag = "station-connect" -> "client.connected"
                       [] tag = "station-disconnect" -> "client.disconnected"
                       [] tag = "ap-detected" -> "device.detected"
                       [] tag = "ap-lost" -> "device.lost",
                     "{\"mac\":\"AA\"}", inbound.event)

\* the notification the handler's switch names for a tag
NameFor(tag) ==
  CASE tag = "sta:connect" -> "client.connected"
    [] tag = "sta:disconnect" -> "client.disconnected"
    [] tag = "ap:detected" -> "device.detected"
    [] tag = "ap:lost" -> "device.lost"

\* C19, amended: the tags are 'sta:connect', 'sta:disconnect', 'ap:detected' and 'ap:lost':
\* given an envelope with one of them and data {mac:"AA"} the handler emits exactly one
\* 'client.connected', 'client.disconnected', 'device.detected' or 'device.lost' carrying
\* {mac:"AA"} and exactly one 'raw_event' carrying the envelope; the hyphenated tags are not
\* named tags and get the generic 'event'.
C19_ColonTagsRouted ==
  /\ \A tag \in {"sta:connect", "sta:disconnect", "ap:detected", "ap:lost"} :
       (inbound.n > 0 /\ inbound.event = Envelope("object", tag, "{\"mac\":\"AA\"}")) =>
         OneNamedOneRaw(inbound.emitted, NameFor(tag), "{\"mac\":\"AA\"}", inbound.event)
  /\ \A tag \in {"station-connect", "station-disconnect", "ap-detected", "ap-lost"} :
       (inbound.n > 0 /\ inbound.event = Envelope("object", tag, "{\"mac\":\"AA\"}")) =>
         /\ Named(inbound.emitted) = {}
         /\ OneNamedOneRaw(inbound.emitted, "event", "{\"mac\":\"AA\"}", inbound.event)

C19_Witness ==
  /\ inbound.n > 0
  /\ inbound.event = Envelope("object", "sta:connect", "{\"mac\":\"AA\"}")
  /\ Len(inbound.emitted) = 2
  /\ inbound.emitted[1].name = "client.connected" /\ inbound.emitted[1].data = "{\"mac\":\"AA\"}"
  /\ inbound.emitted[2].name = "raw_event" /\ inbound.emitted[2].event = inbound.event

C22_EveryErrorCoded ==
  settled.err # NoError => settled.err.code \notin {"", "undefined"}

\* two character sequences are equal when letter case is ignored
SameIgnoringCase(x, y) ==
  /\ Len(x) = Len(y)
  /\ \A k \in 1..Len(x) : x[k] = y[k] \/ {x[k], y[k]} \in {{"a", "A"}, {"b", "B"}}

\* C23: getDevice(mac) and getClient(mac) answered with a collection resolve with the first
\* entry whose mac equals the argument when letter case is ignored, and reject with the
\* not-found error when the collection has no such entry, for every collection and argument.
C23_LookupByMac ==
  (lookedUp.call # 0 /\ settled.call = lookedUp.call) =>
    LET mac == lookedUp.mac
        devices == lookedUp.devices
        same(i) == SameIgnoringCase(devices[i], mac)
    IN  IF \E i \in 1..Len(devices) : same(i)
        THEN \E i \in 1..Len(devices) :
               /\ same(i) /\ \A j \in 1..(i - 1) : ~same(j)
               /\ calls[settled.call].out = "resolved"
               /\ settled.err = NoError
               /\ settled.val = [_id |-> i, mac |-> devices[i]]
        ELSE /\ calls[settled.call].out = "rejected"
             /\ settled.err.name = "UniFiError"
             /\ settled.err.message =
                  (IF lookedUp.op = "getDevice" THEN "Device with MAC " ELSE "Client with MAC ")
                    \o TextOfChars(mac) \o " not found"

\* getDevice("aB") resolved with the second entry of a collection, whose mac is "Ab"
C23_Witness ==
  /\ lookedUp.call # 0 /\ settled.call = lookedUp.call
  /\ lookedUp.op = "getDevice" /\ lookedUp.mac = <<"a", "B">>
  /\ lookedUp.devices = << <<"B">>, <<"A", "b">> >>
  /\ calls[settled.call].out = "resolved"
  /\ settled.val = [_id |-> 2, mac |-> <<"A", "b">>]

\* C24: a domain request whose response envelope has rc 'ok' resolves with the envelope's data
\* section whenever there is one, whatever its value (object, array, empty array, null, 0,
\* false, empty string), and with the whole envelope only when there is no data section.
C24_DataSectionReturned ==
  [][ \A c \in CallIds : (calls[c].pc = "own" /\ calls'[c].pc = "done") =>
        \A r \in PayloadResponses :
          (RcOk(r) /\ requestReturns(c, r)) =>
            Resolved(c, IF r.env.data = "absent" THEN "envelope" ELSE r.env.data)
    ]_vars

\* C25: enableEvents() called while the event connection is open is a no-op returning success,
\* whatever the value of isAuthenticated: the call sends no login request, changes no client
\* state and is on its way to resolve true.
C25_NoOpWhenConnected ==
  [][ \A c \in CallIds :
        ( /\ calls[c].pc = "idle"
          /\ eventSocket # 0
          /\ sockets[eventSocket].state = "open"
          /\ enableEvents(c) ) =>
            /\ calls'[c].nLogin = 0
            /\ calls'[c].pc = "authed"
            /\ <<isAuthenticated, cookies, csrfToken, eventSocket, sockets>>' =
                 <<isAuthenticated, cookies, csrfToken, eventSocket, sockets>>
    ]_vars

\* a construction was attempted
Attempted == client # NoClient

\* C26: construction throws the configuration error and yields no client whenever host,
\* username or password is left out or empty, for every subset of the three; nothing is sent.
C26_FailsFast ==
  ( /\ Attempted
    /\ \/ "host" \notin DOMAIN client.given \/ client.given.host = <<>>
       \/ "username" \notin DOMAIN client.given \/ client.given.username = ""
       \/ "password" \notin DOMAIN client.given \/ client.given.password = "" ) =>
    /\ ~client.made
    /\ client.thrown.name = "UniFiError"
    /\ client.thrown.message = "Host, username, and password are required"
    /\ \A c \in CallIds : calls[c].pc = "idle"
    /\ \A s \in SockIds : sockets[s].state = "none"

\* only the username was given
C26_Witness ==
  /\ client.given = ("username" :> "admin")
  /\ ~client.made
  /\ client.thrown.message = "Host, username, and password are required"

\* C27: construction with host, username and password present yields port 8443, site
\* 'default', ssl true, strictSSL false and timeout 30000 for every optional field that was
\* not given, and the given value for every field that was.
C27_Defaults ==
  client.made =>
    /\ DOMAIN client.options = {"host", "username", "password", "port", "site", "ssl", "strictSSL", "timeout"}
    /\ \A k \in DOMAIN client.given : client.options[k] = client.given[k]
    /\ "port" \notin DOMAIN client.given => client.options.port = 8443
    /\ "site" \notin DOMAIN client.given => client.options.site = <<"d", "e", "f", "a", "u", "l", "t">>
    /\ "ssl" \notin DOMAIN client.given => client.options.ssl = TRUE
    /\ "strictSSL" \notin DOMAIN client.given => client.options.strictSSL = FALSE
    /\ "timeout" \notin DOMAIN client.given => client.options.timeout = 30000

\* no optional field was given: all five defaults apply
C27_Witness ==
  /\ client.made
  /\ DOMAIN client.given = {"host", "username", "password"}
  /\ client.options.port = 8443 /\ client.options.ssl /\ ~client.options.strictSSL
  /\ client.options.timeout = 30000
  /\ client.options.site = <<"d", "e", "f", "a", "u", "l", "t">>

\* the port as it is written in a URL
PortText(port) ==
  CASE port = 8443 -> <<"8", "4", "4", "3">>
    [] port = 443 -> <<"4", "4", "3">>

\* C28: the base URL is '<scheme>://<host>:<port>' with scheme 'https' when ssl is on and
\* 'http' otherwise, and the URL of every event connection is the base URL with the scheme
\* replaced by 'wss' / 'ws' respectively, followed by '/wss/s/<site>/events'.
C28_URLs ==
  client.made =>
    LET o == client.options
        rest == <<":", "/", "/">> \o o.host \o <<":">> \o PortText(o.port)
    IN  /\ client.baseURL = (IF o.ssl THEN <<"h", "t", "t", "p", "s">> ELSE <<"h", "t", "t", "p">>) \o rest
        /\ \A s \in SockIds : sockets[s].state # "none" =>
             sockets[s].url =
               (IF o.ssl THEN <<"w", "s", "s">> ELSE <<"w", "s">>) \o rest
                 \o <<"/", "w", "s", "s", "/", "s", "/">> \o o.site \o <<"/", "e", "v", "e", "n", "t", "s">>

\* a connection to host 'httpd' without ssl: ws://httpd:8443/wss/s/default/events
C28_Witness ==
  /\ client.made
  /\ client.baseURL = <<"h", "t", "t", "p", ":", "/", "/", "h", "t", "t", "p", "d", ":", "8", "4", "4", "3">>
  /\ \E s \in SockIds :
       /\ sockets[s].state = "open"
       /\ sockets[s].url = <<"w", "s", ":", "/", "/", "h", "t", "t", "p", "d", ":", "8", "4", "4", "3",
                             "/", "w", "s", "s", "/", "s", "/", "d", "e", "f", "a", "u", "l", "t",
                             "/", "e", "v", "e", "n", "t", "s">>

\* C29: a freshly constructed client is in the empty session state: isAuthenticated false,
\* cookies and CSRF token empty strings, no event connection handle; and the construction
\* starts no request and no connection.
C29_FreshClient ==
  [][ (client = NoClient /\ client'.made) =>
        /\ isAuthenticated' = FALSE
        /\ cookies' = ""
        /\ csrfToken' = ""
        /\ eventSocket' = 0
        /\ calls' = calls /\ \A c \in CallIds : calls'[c].nLogin = 0 /\ calls'[c].nOwn = 0
        /\ sockets' = sockets /\ \A s \in SockIds : sockets'[s].state = "none"
    ]_client

C29_Witness ==
  /\ client.made
  /\ \A c \in CallIds : calls[c].pc = "idle"
  /\ isAuthenticated = FALSE /\ cookies = "" /\ csrfToken = "" /\ eventSocket = 0

\* calls whose /api/login request is in flight
LoggingIn == {d \in CallIds : calls[d].pc = "login"}

\* C30: logins are neither serialized nor de-duplicated: a domain operation started while
\* isAuthenticated is false and another call's login is in flight sends its own /api/login,
\* so that one more login is in flight than before.
C30_ConcurrentLogins ==
  [][ \A c \in CallIds :
        ( /\ calls[c].pc = "idle" /\ calls'[c].pc # "idle"
          /\ ~isAuthenticated
          /\ LoggingIn # {}
          /\ request(c) ) =>
            /\ calls'[c].pc = "login" /\ calls'[c].nLogin = 1
            /\ LoggingIn' = LoggingIn \cup {c}
    ]_vars

\* two domain operations, each with its own login in flight
C30_Witness ==
  \E c, d \in CallIds :
    /\ c # d
    /\ calls[c].kind = "request" /\ calls[c].pc = "login" /\ calls[c].nLogin = 1
    /\ calls[d].kind = "request" /\ calls[d].pc = "login" /\ calls[d].nLogin = 1
    /\ ~isAuthenticated

\* what the error callback of socket s does for a caller that is listening or not
ErrorEffect(s, listening) ==
  /\ sockets'[s].nError = sockets[s].nError + 1
  /\ IF sockets[s].opened
     THEN /\ calls' = calls /\ settled' = settled
          /\ eventSocket' = eventSocket
          /\ Session' = Session
     ELSE /\ Rejected(sockets[s].owner)
          /\ settled'.err = SocketError

NameValues(setCookie) ==
  IF setCookie.list = << <<"unifises=A", " Path=/", " HttpOnly">> >> THEN "unifises=A"
  ELSE IF setCookie.list = << <<"unifises=B">>, <<"csrf_token=X", " Secure">> >>
       THEN "unifises=B; csrf_token=X"
       ELSE "?"

\* C32: the stored cookies are replaced, never merged: a delivered response with set-cookie
\* headers leaves exactly the 'name=value' parts of its cookies, joined by '; ', whatever was
\* stored before; a response without set-cookie headers and any failed response leave the
\* stored cookies as they were. (The response of /api/logout passes the same interceptor, and
\* logout() then empties the cookies when the response was delivered.)
C32_CookiesReplaced ==
  [][\A c \in CallIds :
       calls'[c] # calls[c] =>
         \A r \in CookieResponses :
           /\ (loginReturns(c, r) \/ requestReturns(c, r)) =>
                cookies' = IF r.ok /\ r.setCookie.present THEN NameValues(r.setCookie) ELSE cookies
           /\ logoutReturns(c, r) => cookies' = IF r.ok THEN "" ELSE cookies]_vars

\* the cookies of a response are stored, a login has succeeded, and the response that
\* arrived last was an HTTP 401, which left them in place
C32_Witness ==
  /\ cookies = "unifises=B; csrf_token=X"
  /\ \A c \in CallIds : calls[c].out # "pending" /\ calls[c].kind \in {"login", "request"}
  /\ \E c \in CallIds : calls[c].kind = "login" /\ calls[c].out = "resolved"
  /\ settled.err.code = "INVALID_CREDENTIALS"

\* C33: whenever the stored connection handle is empty, no connection created by this client
\* is connecting or open: the close callback of a connection that was released by
\* disableEvents() or logout() never clears the handle of a newer connection.
C33_EmptyHandleNoLiveConnection ==
  eventSocket = 0 => \A s \in SockIds : sockets[s].state \notin {"connecting", "open"}

\* a step in which the login request of call c is answered with success
LoginSucceeds(c) == calls[c].pc = "login" /\ calls'[c].loginOut = "ok"

\* a step in which a logout() call runs to its end
LogoutCompletes(c) == calls[c].kind = "logout" /\ calls[c].pc = "own" /\ calls'[c].pc = "done"

\* a step in which a request of call c is answered with HTTP 401
Received401(c) ==
  /\ calls[c].pc \in {"login", "own"} /\ calls'[c].out = "rejected"
  /\ settled'.call = c /\ settled'.err.code = "INVALID_CREDENTIALS"

\* C34: isAuthenticated is true in every state in which some login has succeeded and, since
\* then, no logout() has been called and no HTTP 401 has been received: a successful login
\* sets it, and only a logout() or a 401 clears it; in particular the completion of another
\* login attempt that was in flight concurrently does not.
C34_AuthenticatedUntilLogoutOr401 ==
  [][ /\ \A c \in CallIds : LoginSucceeds(c) => isAuthenticated'
      /\ (isAuthenticated /\ ~isAuthenticated') =>
           \E c \in CallIds : LogoutCompletes(c) \/ Received401(c) ]_vars

\* C35: once a logout() call has resolved, isAuthenticated stays false until a login is
\* started after that point: the response of a login that was already in flight when logout()
\* was called (calls are numbered in the order they are made), arriving when no later call has
\* sent a login, does not set isAuthenticated back to true and does not repopulate the cookies
\* or the CSRF token.
C35_LogoutIsFinal ==
  [][\A c, d \in CallIds :
       ( /\ d < c
         /\ calls[c].kind = "logout" /\ calls[c].out = "resolved"
         /\ calls[d].pc = "login" /\ calls'[d].pc # "login"
         /\ \A e \in CallIds : e > c => calls[e].nLogin = 0 ) =>
           ~isAuthenticated' /\ Session' = Session]_vars

\* call c is an enableEvents() call that has not settled
EnableEventsPending(c) == calls[c].kind = "enableEvents" /\ calls[c].out = "pending"

\* the connection created by call c reported an error while the caller had no 'error' listener
ErrorThrown(c) ==
  \E s \in SockIds : sockets[s].owner = c /\ sockets[s].errored /\ sockets[s].nError = 0

EventNotifications(emitted) == {i \in 1..Len(emitted) : emitted[i].name # "error"}

\* C37: event notifications (client.connected, client.disconnected, device.detected,
\* device.lost, event, raw_event) are only emitted while the connection that delivered the
\* frame is the one the stored handle refers to; in particular none is emitted for a frame of
\* a connection released by disableEvents() or by a successful logout().
C37_OnlyHeldConnectionNotifies ==
  [][(inbound'.n # inbound.n /\ EventNotifications(inbound'.emitted) # {}) =>
       eventSocket = inbound'.sock]_vars

\* the enableEvents() calls that were rejected by an error of the connection they created
RejectedByConnection == {c \in CallIds : calls[c].kind = "enableEvents" /\ calls[c].out = "rejected"
                                         /\ calls[c].sock # 0}

\* C38 as stated: after an enableEvents() call has rejected because of a connection error, the
\* stored handle no longer refers to the failed connection, so that a subsequent enableEvents()
\* creates a fresh connection instead of returning success for the failed one.
C38_DisconnectedAfterRejection ==
  /\ [](\A c \in RejectedByConnection : eventSocket # calls[c].sock)
  /\ [][\A d \in CallIds :
          (calls[d].kind = "enableEvents" /\ calls[d].sock = 0 /\ calls'[d].out = "resolved") =>
            \A c \in RejectedByConnection : calls'[d].sock # calls[c].sock]_vars

\* C38, amended: after an enableEvents() call has rejected because of a connection error and
\* the close of that connection has been delivered, the stored handle does not refer to the
\* failed connection, and an enableEvents() that runs from then on never returns success for
\* it; the error callback itself leaves the handle in place.
C38_DisconnectedAfterClose ==
  /\ [](\A c \in RejectedByConnection :
          sockets[calls[c].sock].state = "closed" => eventSocket # calls[c].sock)
  /\ [][\A d \in CallIds :
          (calls[d].kind = "enableEvents" /\ calls[d].sock = 0 /\ calls'[d].out = "resolved") =>
            \A c \in RejectedByConnection :
              sockets[calls[c].sock].state = "closed" => calls'[d].sock # calls[c].sock]_vars
  /\ [][\A s \in SockIds : onError(s, TRUE) => eventSocket' = eventSocket]_vars

\* a call was rejected by the error of its connection, the connection has closed, and a later
\* call has created another connection, which the handle refers to
C38_Witness ==
  \E c, d \in CallIds :
    /\ c \in RejectedByConnection /\ c < d
    /\ sockets[calls[c].sock].state = "closed" /\ ~sockets[calls[c].sock].opened
    /\ calls[d].kind = "enableEvents" /\ calls[d].sock \notin {0, calls[c].sock}
    /\ sockets[calls[d].sock].owner = d
    /\ eventSocket = calls[d].sock

\* the CSRF header a request sent in the current state carries
AttachedToken == RequestHeaders(Session).XCsrfToken

\* C39: the CSRF token attached to an outgoing request is always the one supplied by the most
\* recent successful login response: a successful login makes it the token of its response,
\* none when the response supplies none; a logout() and an HTTP 401 leave none; and no other
\* response changes it.
C39_TokenOfLatestLogin ==
  [][\A c \in CallIds :
       calls'[c] # calls[c] =>
         \A r \in Responses :
           /\ loginReturns(c, r) =>
                AttachedToken' = IF r.ok /\ RcOk(r)
                                 THEN (IF r.env.csrf = "" THEN "absent" ELSE r.env.csrf)
                                 ELSE IF r.status = 401 THEN "absent" ELSE AttachedToken
           /\ requestReturns(c, r) =>
                AttachedToken' = IF r.status = 401 THEN "absent" ELSE AttachedToken
           /\ logoutReturns(c, r) => AttachedToken' = "absent"]_vars

\* C40: an enableEvents() call whose lazy login fails rejects with the login's error and has
\* no effect on the event stream: the call has created no connection, no connection is
\* created, changed or notified about ('events.connected', 'events.disconnected'), and the
\* stored handle is what it was, empty when there was no connection.
C40_FailedLoginNoConnection ==
  [][\A c \in CallIds :
       (calls[c].kind = "enableEvents" /\ calls[c].pc = "login" /\ calls'[c] # calls[c]) =>
         \A r \in AttemptResponses :
           (~EnvelopeOk(r) /\ loginReturns(c, r)) =>
             /\ Rejected(c) /\ settled'.err = LoginError(r)
             /\ calls'[c].sock = 0 /\ SocketsOf(c) = {}
             /\ sockets' = sockets
             /\ eventSocket' = eventSocket
             /\ (CreatedSockets = {} => eventSocket' = 0)]_vars

\* the only call so far is an enableEvents() whose login was refused: it is rejected with the
\* login's error, no connection exists and the handle is empty
C40_Witness ==
  \E c \in CallIds :
    /\ calls[c].kind = "enableEvents" /\ calls[c].lazy /\ calls[c].nLogin = 1
    /\ calls[c].out = "rejected" /\ calls[c].sock = 0
    /\ settled.call = c /\ settled.err.code = "INVALID_CREDENTIALS"
    /\ CreatedSockets = {} /\ eventSocket = 0 /\ ~isAuthenticated
    /\ \A d \in CallIds \ {c} : calls[d].kind = "none"

====
